---- MODULE Spec2Model ----
(***************************************************************************)
(* Source verification of caesura: VerifyCommand::execute and its three    *)
(* phases (api_checks, flac_checks, hash_check) as a state machine, and    *)
(* Host::execute, which validates the options, resolves the source and     *)
(* dispatches one command, the verifier among them.                        *)
(*                                                                         *)
(* The collaborators (TargetFormatProvider, Collector, PathManager,        *)
(* TagVerifier, StreamVerifier, Shortener, Api, ImdlCommand) are the       *)
(* environment: each answers when the code calls it, the answer is drawn   *)
(* from a small set and then kept, so that a later run on the unchanged    *)
(* source meets the same answers.  Every call is appended to `calls`.      *)
(*                                                                         *)
(* Specifications: Spec (one run), SpecFair (one run, every enabled step   *)
(* taken in the end), SpecRepeat (two runs), SpecShared (two runs beside   *)
(* another holder of the api lock), SpecPolicy (the policy phase on every  *)
(* source), SpecHost (Host::execute around one run).                       *)
(***************************************************************************)
EXTENDS Integers, Sequences, FiniteSets, TLC

\* ---------------------------------------------------------------- bounds
\* Largest number of FLAC files the collector returns.
MaxFiles == 2

\* crate::verify::MAX_PATH_LENGTH, compared against at verify_command.rs:87.
MAX_PATH_LENGTH == 180

\* ------------------------------------------------------------- data model
\* A string is its text (abstract) and its length.
Str(text, len) == [text |-> text, len |-> len]
NoArg == Str(0, 0)

\* SourceRule variants; nullary variants carry NoArg.
Rule(kind, arg) == [kind |-> kind, arg |-> arg]
SceneNotSupported == Rule("SceneNotSupported", NoArg)
LossyMasterNeedsApproval == Rule("LossyMasterNeedsApproval", NoArg)
LossyWebNeedsApproval == Rule("LossyWebNeedsApproval", NoArg)
NoTranscodeFormats == Rule("NoTranscodeFormats", NoArg)
SourceDirectoryNotFound(path) == Rule("SourceDirectoryNotFound", path)
NoFlacFiles(path) == Rule("NoFlacFiles", path)
PathTooLong(path) == Rule("PathTooLong", path)

\* Option<bool> of the torrent's approval flags.
OptionBool == {"None", "Some(true)", "Some(false)"}

\* Target formats the provider can answer with.
Formats == {"_320", "V0"}

\* State of source.directory on disk: absent, a plain file, or a directory.
DirStates == {"missing", "file", "dir"}

\* source.directory.to_string_lossy().to_string(): text 0 names the directory.
DirectoryString == Str(0, 12)

\* Files are numbered in collector order; file f's paths have text f.
Files == 1..MaxFiles

\* Answers of Collector::get_flacs: the number of files found, in order 1..n.
FlacsAnswers == 0..MaxFiles

\* Answers of PathManager::get_max_transcode_sub_path for file f: a path at
\* the limit and one a single unit longer.
MaxPathAnswers(f) == {Str(f, MAX_PATH_LENGTH), Str(f, MAX_PATH_LENGTH + 1)}

\* Result<Vec<SourceRule>, AppError> of a collaborator.
Ok(rules) == [ok |-> TRUE, rules |-> rules]
Err == [ok |-> FALSE, rules |-> <<>>]

\* Answers of TagVerifier::execute on file f.
TagAnswers(f) ==
    {Err, Ok(<<>>), Ok(<<Rule("NoArtistTag", Str(f, 0)), Rule("NoTitleTag", Str(f, 0))>>)}

\* Answers of StreamVerifier::execute on file f.
StreamAnswers(f) == {Err, Ok(<<>>), Ok(<<Rule("SampleRate", Str(f, 0))>>)}

\* Answers of Api::get_torrent_file_as_buffer: Ok(buffer) or Err.
FetchAnswers == {"Ok", "Err"}

\* Answers of ImdlCommand::verify_from_buffer.
ImdlAnswers == {Err, Ok(<<>>), Ok(<<Rule("IncorrectHash", NoArg)>>)}

RECURSIVE Concat(_)
\* Concatenation of a sequence of sequences.
Concat(ss) == IF ss = <<>> THEN <<>> ELSE Head(ss) \o Concat(Tail(ss))

\* ------------------------------------------------------------------ state
VARIABLES
    source,          \* the Source under verification (read-only to the engine)
    eligible,        \* what targets.get(source.format, &source.existing) returns
    skip_hash_check, \* VerifyOptions.skip_hash_check
    flacs_ans,       \* answers given so far, by collaborator and argument
    path_ans,
    tag_ans,
    stream_ans,
    fetch_ans,
    imdl_ans,
    pc,              \* position of execute
    api_errors,      \* execute's locals
    flac_errors,
    hash_check,
    flacs,           \* flac_checks' locals: number of files, loop index, errors
    idx,
    errors,
    api_lock,        \* the RwLock of RefMut<Api>: "free", "write" (held by
                     \* hash_check) or "other" (held by another user of the api)
    result,          \* what execute returned: "none" while running
    warned,          \* rules logged by warn_errors, in order
    debug_log,       \* entries logged by debug_errors, in order
    calls,           \* collaborator calls of the current run, in order
    run,             \* number of the current run
    history,         \* outcomes of the completed runs
    host             \* Host::execute, the caller of the verifier (NoHost: none)

\* What a run of the verifier is given and leaves alone.
env == <<source, eligible, skip_hash_check, host>>
memo == <<flacs_ans, path_ans, tag_ans, stream_ans, fetch_ans, imdl_ans>>
locals == <<api_errors, flac_errors, hash_check, flacs, idx, errors>>
vars == <<env, memo, locals, pc, api_lock, result, warned, debug_log, calls, run, history>>

Sources ==
    [scene : BOOLEAN,
     lossy_master_approved : OptionBool,
     lossy_web_approved : OptionBool,
     directory : DirStates,
     id : {7}]

\* A collaborator call: its name and the file it is about (0: none).
Call(op, arg) == [op |-> op, arg |-> arg]

\* The answers a collaborator may give for arg: the one it gave before, or any.
Answer(given, arg, answers) == IF arg \in DOMAIN given THEN {given[arg]} ELSE answers

\* given, with the answer for arg recorded.
Remember(given, arg, a) == IF arg \in DOMAIN given THEN given ELSE given @@ (arg :> a)

\* The verifier called on its own, with no Host around it.
NoHost ==
    [pc |-> "none", shared_options |-> "unasked", source_provider |-> "unasked",
     command |-> "none", options |-> "unasked", verifier_lock |-> "free",
     result |-> "none", calls |-> <<>>]

Init ==
    /\ source \in Sources
    /\ eligible \in SUBSET Formats
    /\ skip_hash_check \in BOOLEAN
    /\ host = NoHost
    /\ flacs_ans = <<>> /\ path_ans = <<>> /\ tag_ans = <<>>
    /\ stream_ans = <<>> /\ fetch_ans = <<>> /\ imdl_ans = <<>>
    /\ pc = "start"
    /\ api_errors = <<>> /\ flac_errors = <<>> /\ hash_check = <<>>
    /\ flacs = 0 /\ idx = 0 /\ errors = <<>>
    /\ api_lock = "free"
    /\ result = "none"
    /\ warned = <<>> /\ debug_log = <<>> /\ calls = <<>>
    /\ run = 1
    /\ history = <<>>

\* ------------------------------------------------------- pure operations
\* debug_errors: one entry per phase, "Passed" or "Failed" with every rule.
debug_errors(log, errs, title) ==
    Append(log, [title |-> title, passed |-> errs = <<>>, rules |-> errs])

\* warn_errors putting the rules in front of those already logged.
warn_errors_prepend(log, errs) == errs \o log

\* warn_errors: every rule, in order.
warn_errors(log, errs) == log \o errs

\* api_checks with the approval flags tested by is_some().
api_checks_is_some(src, target_formats) ==
    Concat(<<
        IF src.scene THEN <<SceneNotSupported>> ELSE <<>>,
        IF src.lossy_master_approved # "None" THEN <<LossyMasterNeedsApproval>> ELSE <<>>,
        IF src.lossy_web_approved # "None" THEN <<LossyWebNeedsApproval>> ELSE <<>>,
        IF target_formats = {} THEN <<NoTranscodeFormats>> ELSE <<>>
    >>)

\* api_checks returning early, with one rule, when no target format is left.
api_checks_early_return(src, target_formats) ==
    IF target_formats = {}
    THEN <<NoTranscodeFormats>>
    ELSE Concat(<<
        IF src.scene THEN <<SceneNotSupported>> ELSE <<>>,
        IF src.lossy_master_approved = "Some(true)" THEN <<LossyMasterNeedsApproval>> ELSE <<>>,
        IF src.lossy_web_approved = "Some(true)" THEN <<LossyWebNeedsApproval>> ELSE <<>>
    >>)

\* api_checks with the lossy-web test ahead of the lossy-master test.
api_checks_web_first(src, target_formats) ==
    Concat(<<
        IF src.scene THEN <<SceneNotSupported>> ELSE <<>>,
        IF src.lossy_web_approved = "Some(true)" THEN <<LossyWebNeedsApproval>> ELSE <<>>,
        IF src.lossy_master_approved = "Some(true)" THEN <<LossyMasterNeedsApproval>> ELSE <<>>,
        IF target_formats = {} THEN <<NoTranscodeFormats>> ELSE <<>>
    >>)

\* api_checks: the four policy predicates, each pushing at most one rule.
api_checks(src, target_formats) ==
    Concat(<<
        IF src.scene THEN <<SceneNotSupported>> ELSE <<>>,
        IF src.lossy_master_approved = "Some(true)" THEN <<LossyMasterNeedsApproval>> ELSE <<>>,
        IF src.lossy_web_approved = "Some(true)" THEN <<LossyWebNeedsApproval>> ELSE <<>>,
        IF target_formats = {} THEN <<NoTranscodeFormats>> ELSE <<>>
    >>)

\* The directory test without is_dir().
DirectoryNotFound_exists_only(src) == src.directory = "missing"

\* !source.directory.exists() || !source.directory.is_dir()
DirectoryNotFound(src) == src.directory = "missing" \/ src.directory # "dir"

\* The limit compared with >=.
ExceedsLimit_or_equal(max_path) == max_path.len >= MAX_PATH_LENGTH

\* max_path.len() > MAX_PATH_LENGTH
ExceedsLimit(max_path) == max_path.len > MAX_PATH_LENGTH

\* The album test looking at the last rule only.
AnyPathTooLong_last(errs) == errs # <<>> /\ errs[Len(errs)].kind = "PathTooLong"

\* errors.iter().any(|rule| matches!(rule, &PathTooLong(_)))
AnyPathTooLong(errs) == \E i \in 1..Len(errs) : errs[i].kind = "PathTooLong"

\* The option ignored: the hash check always runs.
SkipHashCheck_never == FALSE

\* The hash check also skipped for a source that is rejected already.
SkipHashCheck_when_rejected == skip_hash_check \/ api_errors # <<>> \/ flac_errors # <<>>

\* self.options.get_value(|x| x.skip_hash_check)
SkipHashCheck == skip_hash_check

\* The verdict without the hash rules.
is_verified_without_hash(api, flac, hash) == api = <<>> /\ flac = <<>>

\* api_errors.is_empty() && flac_errors.is_empty() && hash_check.is_empty()
is_verified(api, flac, hash) == api = <<>> /\ flac = <<>> /\ hash = <<>>

\* ---------------------------------------------------------------- execute
\* A hard error turned into a rejection.
HardError_as_rejection ==
    /\ pc' = "verdict"
    /\ result' = "Ok(false)"

\* execute returns Err(e): the `?` at lines 32 and 38.
HardError ==
    /\ pc' = "error"
    /\ result' = "Err"

\* Lines 29-31: the policy phase and its debug banner.
ApiChecks ==
    /\ pc = "start"
    /\ api_errors' = api_checks(source, eligible)
    /\ calls' = Append(calls, Call("targets.get", 0))
    /\ debug_log' = debug_errors(debug_log, api_errors', "API checks")
    /\ pc' = "policy_checked"
    /\ UNCHANGED <<env, memo, flac_errors, hash_check, flacs, idx, errors,
                   api_lock, result, warned, run, history>>

\* flac_checks returns Ok(rules) to execute (line 32), which logs them (line 33).
FlacReturn(rules) ==
    /\ flac_errors' = rules
    /\ debug_log' = debug_errors(debug_log, rules, "FLAC file checks")
    /\ pc' = "file_checked"

\* Lines 73-77: the directory is absent or no directory.
FlacDirectoryNotFound ==
    /\ pc = "policy_checked"
    /\ DirectoryNotFound(source)
    /\ FlacReturn(<<SourceDirectoryNotFound(DirectoryString)>>)
    /\ UNCHANGED <<env, memo, api_errors, hash_check, flacs, idx, errors,
                   api_lock, result, warned, calls, run, history>>

\* The collector's answer used without the is_empty() test.
FlacCollect_no_empty_test ==
    /\ pc = "policy_checked"
    /\ ~DirectoryNotFound(source)
    /\ \E n \in Answer(flacs_ans, 0, FlacsAnswers) :
        /\ flacs_ans' = Remember(flacs_ans, 0, n)
        /\ calls' = Append(calls, Call("Collector::get_flacs", 0))
        /\ flacs' = n
        /\ IF n = 0
           THEN /\ FlacReturn(<<>>)
                /\ UNCHANGED <<idx, errors>>
           ELSE /\ idx' = 1
                /\ errors' = <<>>
                /\ pc' = "flac_path"
                /\ UNCHANGED <<flac_errors, debug_log>>
    /\ UNCHANGED <<env, path_ans, tag_ans, stream_ans, fetch_ans, imdl_ans,
                   api_errors, hash_check, api_lock, result, warned, run, history>>

\* Lines 78-84: the collector is asked; no file ends the phase, else the loop starts.
FlacCollect ==
    /\ pc = "policy_checked"
    /\ ~DirectoryNotFound(source)
    /\ \E n \in Answer(flacs_ans, 0, FlacsAnswers) :
        /\ flacs_ans' = Remember(flacs_ans, 0, n)
        /\ calls' = Append(calls, Call("Collector::get_flacs", 0))
        /\ flacs' = n
        /\ IF n = 0
           THEN /\ FlacReturn(<<NoFlacFiles(DirectoryString)>>)
                /\ UNCHANGED <<idx, errors>>
           ELSE /\ idx' = 1
                /\ errors' = <<>>
                /\ pc' = "flac_path"
                /\ UNCHANGED <<flac_errors, debug_log>>
    /\ UNCHANGED <<env, path_ans, tag_ans, stream_ans, fetch_ans, imdl_ans,
                   api_errors, hash_check, api_lock, result, warned, run, history>>

\* The path evaluation left out when the source has no target format.
FlacMaxPath_unless_no_target ==
    /\ pc = "flac_path"
    /\ IF eligible = {}
       THEN UNCHANGED <<path_ans, errors, calls>>
       ELSE \E max_path \in Answer(path_ans, idx, MaxPathAnswers(idx)) :
            /\ path_ans' = Remember(path_ans, idx, max_path)
            /\ IF ExceedsLimit(max_path)
               THEN /\ errors' = Append(errors, PathTooLong(max_path))
                    /\ calls' = calls \o <<Call("get_max_transcode_sub_path", idx),
                                           Call("Shortener::suggest_track_name", idx)>>
               ELSE /\ errors' = errors
                    /\ calls' = Append(calls, Call("get_max_transcode_sub_path", idx))
    /\ pc' = "flac_tag"
    /\ UNCHANGED <<env, flacs_ans, tag_ans, stream_ans, fetch_ans, imdl_ans,
                   api_errors, flac_errors, hash_check, flacs, idx,
                   api_lock, result, warned, debug_log, run, history>>

\* Lines 86-90: the longest transcode path of file idx, and the track suggestion.
FlacMaxPath ==
    /\ pc = "flac_path"
    /\ \E max_path \in Answer(path_ans, idx, MaxPathAnswers(idx)) :
        /\ path_ans' = Remember(path_ans, idx, max_path)
        /\ IF ExceedsLimit(max_path)
           THEN /\ errors' = Append(errors, PathTooLong(max_path))
                /\ calls' = calls \o <<Call("get_max_transcode_sub_path", idx),
                                       Call("Shortener::suggest_track_name", idx)>>
           ELSE /\ errors' = errors
                /\ calls' = Append(calls, Call("get_max_transcode_sub_path", idx))
    /\ pc' = "flac_tag"
    /\ UNCHANGED <<env, flacs_ans, tag_ans, stream_ans, fetch_ans, imdl_ans,
                   api_errors, flac_errors, hash_check, flacs, idx,
                   api_lock, result, warned, debug_log, run, history>>

\* The tag verifier's rules cut after the first.
FlacTags_first_rule_only ==
    /\ pc = "flac_tag"
    /\ \E a \in Answer(tag_ans, idx, TagAnswers(idx)) :
        /\ tag_ans' = Remember(tag_ans, idx, a)
        /\ calls' = Append(calls, Call("TagVerifier::execute", idx))
        /\ IF a.ok
           THEN /\ errors' = errors \o (IF a.rules = <<>> THEN <<>> ELSE <<Head(a.rules)>>)
                /\ pc' = "flac_stream"
                /\ UNCHANGED result
           ELSE /\ HardError
                /\ UNCHANGED errors
    /\ UNCHANGED <<env, flacs_ans, path_ans, stream_ans, fetch_ans, imdl_ans,
                   api_errors, flac_errors, hash_check, flacs, idx,
                   api_lock, warned, debug_log, run, history>>

\* Lines 91-93: the tag verifier on file idx; its error ends execute.
FlacTags ==
    /\ pc = "flac_tag"
    /\ \E a \in Answer(tag_ans, idx, TagAnswers(idx)) :
        /\ tag_ans' = Remember(tag_ans, idx, a)
        /\ calls' = Append(calls, Call("TagVerifier::execute", idx))
        /\ IF a.ok
           THEN /\ errors' = errors \o a.rules
                /\ pc' = "flac_stream"
                /\ UNCHANGED result
           ELSE /\ HardError
                /\ UNCHANGED errors
    /\ UNCHANGED <<env, flacs_ans, path_ans, stream_ans, fetch_ans, imdl_ans,
                   api_errors, flac_errors, hash_check, flacs, idx,
                   api_lock, warned, debug_log, run, history>>

\* Lines 94-97: the stream verifier on file idx; then the next file.
FlacStream ==
    /\ pc = "flac_stream"
    /\ \E a \in Answer(stream_ans, idx, StreamAnswers(idx)) :
        /\ stream_ans' = Remember(stream_ans, idx, a)
        /\ calls' = Append(calls, Call("StreamVerifier::execute", idx))
        /\ IF a.ok
           THEN /\ errors' = errors \o a.rules
                /\ IF idx < flacs
                   THEN idx' = idx + 1 /\ pc' = "flac_path"
                   ELSE idx' = idx /\ pc' = "flac_album"
                /\ UNCHANGED result
           ELSE /\ HardError
                /\ UNCHANGED <<errors, idx>>
    /\ UNCHANGED <<env, flacs_ans, path_ans, tag_ans, fetch_ans, imdl_ans,
                   api_errors, flac_errors, hash_check, flacs,
                   api_lock, warned, debug_log, run, history>>

\* Lines 98-101: the album suggestion, and the return of flac_checks.
FlacAlbum ==
    /\ pc = "flac_album"
    /\ calls' = IF AnyPathTooLong(errors)
                THEN Append(calls, Call("Shortener::suggest_album_name", 0))
                ELSE calls
    /\ FlacReturn(errors)
    /\ UNCHANGED <<env, memo, api_errors, hash_check, flacs, idx, errors,
                   api_lock, result, warned, run, history>>

\* hash_check returns Ok(rules) to execute (line 38), which logs them (line 39).
HashReturn(rules) ==
    /\ hash_check' = rules
    /\ debug_log' = debug_errors(debug_log, rules, "Hash check")
    /\ pc' = "hash_checked"

\* Lines 34-36: the hash check is skipped by the options.
HashSkipped ==
    /\ pc = "file_checked"
    /\ SkipHashCheck
    /\ hash_check' = <<>>
    /\ pc' = "hash_checked"
    /\ UNCHANGED <<env, memo, api_errors, flac_errors, flacs, idx, errors,
                   api_lock, result, warned, debug_log, calls, run, history>>

\* The hash phase started without waiting for the file-content phase.
HashLock_before_files ==
    /\ pc \in {"policy_checked", "file_checked"}
    /\ ~SkipHashCheck
    /\ api_lock = "free"
    /\ api_lock' = "write"
    /\ pc' = "hash_locked"
    /\ UNCHANGED <<env, memo, locals, result, warned, debug_log, calls, run, history>>

\* The write guard taken a second time while held: the second write() blocks.
HashLock_twice ==
    /\ pc = "file_checked"
    /\ ~SkipHashCheck
    /\ api_lock = "free"
    /\ api_lock' = "write"
    /\ pc' = "hash_locking"
    /\ UNCHANGED <<env, memo, locals, result, warned, debug_log, calls, run, history>>

\* Line 105: the write guard on the api is taken.
HashLock ==
    /\ pc = "file_checked"
    /\ ~SkipHashCheck
    /\ api_lock = "free"
    /\ api_lock' = "write"
    /\ pc' = "hash_locked"
    /\ UNCHANGED <<env, memo, locals, result, warned, debug_log, calls, run, history>>

\* The fetch with the guard kept when it fails.
HashFetch_keeps_guard_on_error ==
    /\ pc = "hash_locked"
    /\ \E a \in Answer(fetch_ans, source.id, FetchAnswers) :
        /\ fetch_ans' = Remember(fetch_ans, source.id, a)
        /\ calls' = Append(calls, Call("get_torrent_file_as_buffer", 0))
        /\ IF a = "Ok"
           THEN /\ pc' = "hash_fetched"
                /\ UNCHANGED <<api_lock, result>>
           ELSE /\ HardError
                /\ UNCHANGED api_lock
    /\ UNCHANGED <<env, flacs_ans, path_ans, tag_ans, stream_ans, imdl_ans,
                   locals, warned, debug_log, run, history>>

\* Line 106: the torrent file is fetched; an error drops the guard and ends execute.
HashFetch ==
    /\ pc = "hash_locked"
    /\ \E a \in Answer(fetch_ans, source.id, FetchAnswers) :
        /\ fetch_ans' = Remember(fetch_ans, source.id, a)
        /\ calls' = Append(calls, Call("get_torrent_file_as_buffer", 0))
        /\ IF a = "Ok"
           THEN /\ pc' = "hash_fetched"
                /\ UNCHANGED <<api_lock, result>>
           ELSE /\ HardError
                /\ api_lock' = "free"
    /\ UNCHANGED <<env, flacs_ans, path_ans, tag_ans, stream_ans, imdl_ans,
                   locals, warned, debug_log, run, history>>

\* Line 107: the torrent is verified against the directory; the guard is dropped.
HashVerify ==
    /\ pc = "hash_fetched"
    /\ \E a \in Answer(imdl_ans, 0, ImdlAnswers) :
        /\ imdl_ans' = Remember(imdl_ans, 0, a)
        /\ calls' = Append(calls, Call("ImdlCommand::verify_from_buffer", 0))
        /\ api_lock' = "free"
        /\ IF a.ok
           THEN /\ HashReturn(a.rules)
                /\ UNCHANGED result
           ELSE /\ HardError
                /\ UNCHANGED <<hash_check, debug_log>>
    /\ UNCHANGED <<env, flacs_ans, path_ans, tag_ans, stream_ans, fetch_ans,
                   api_errors, flac_errors, flacs, idx, errors, warned, run, history>>

\* Lines 42-51: the verdict; a rejected source has every rule warned, by phase.
Verdict ==
    /\ pc = "hash_checked"
    /\ IF is_verified(api_errors, flac_errors, hash_check)
       THEN /\ result' = "Ok(true)"
            /\ warned' = warned
       ELSE /\ result' = "Ok(false)"
            /\ warned' = warn_errors(warn_errors(warn_errors(warned, api_errors),
                                                 flac_errors), hash_check)
    /\ pc' = "verdict"
    /\ UNCHANGED <<env, memo, locals, api_lock, debug_log, calls, run, history>>

\* What a completed run leaves to be seen.
Outcome ==
    [result |-> result, api_errors |-> api_errors, flac_errors |-> flac_errors,
     hash_check |-> hash_check, warned |-> warned, calls |-> calls, pc |-> pc]

\* A second call that finds the warned rules of the first still in place.
Rerun_keeps_warned ==
    /\ pc \in {"verdict", "error"}
    /\ run = 1
    /\ history' = Append(history, Outcome)
    /\ run' = run + 1
    /\ pc' = "start"
    /\ api_errors' = <<>> /\ flac_errors' = <<>> /\ hash_check' = <<>>
    /\ flacs' = 0 /\ idx' = 0 /\ errors' = <<>>
    /\ result' = "none"
    /\ debug_log' = <<>> /\ calls' = <<>>
    /\ UNCHANGED <<env, memo, api_lock, warned>>

\* execute is called a second time on the same source, with fresh locals.
Rerun ==
    /\ pc \in {"verdict", "error"}
    /\ run = 1
    /\ history' = Append(history, Outcome)
    /\ run' = run + 1
    /\ pc' = "start"
    /\ api_errors' = <<>> /\ flac_errors' = <<>> /\ hash_check' = <<>>
    /\ flacs' = 0 /\ idx' = 0 /\ errors' = <<>>
    /\ result' = "none"
    /\ warned' = <<>> /\ debug_log' = <<>> /\ calls' = <<>>
    /\ UNCHANGED <<env, memo, api_lock>>

Next ==
    \/ ApiChecks
    \/ FlacDirectoryNotFound
    \/ FlacCollect
    \/ FlacMaxPath
    \/ FlacTags
    \/ FlacStream
    \/ FlacAlbum
    \/ HashSkipped
    \/ HashLock
    \/ HashFetch
    \/ HashVerify
    \/ Verdict

\* The sources of whole runs: the two approval flags are taken equal and the
\* eligible formats are none or all; the policy phase alone sees every source.
InitRun ==
    /\ Init
    /\ source.lossy_master_approved = source.lossy_web_approved
    /\ eligible \in {{}, Formats}

\* One run of execute.
Spec == InitRun /\ [][Next]_vars

NextRepeat ==
    \/ Next
    \/ Rerun

\* Two runs of execute on one source.
SpecRepeat == InitRun /\ [][NextRepeat]_vars

\* Another holder of the RefMut<Api> takes the lock.
OtherAcquire ==
    /\ api_lock = "free"
    /\ api_lock' = "other"
    /\ UNCHANGED <<env, memo, locals, pc, result, warned, debug_log, calls, run, history>>

\* The other holder drops its guard.
OtherRelease ==
    /\ api_lock = "other"
    /\ api_lock' = "free"
    /\ UNCHANGED <<env, memo, locals, pc, result, warned, debug_log, calls, run, history>>

NextShared ==
    \/ NextRepeat
    \/ OtherAcquire
    \/ OtherRelease

\* Two runs of execute beside another user of the shared api.
SpecShared == InitRun /\ [][NextShared]_vars

\* ------------------------------------------------------------------- Host
\* The verifier's state, which the Host's own steps leave alone.
engine ==
    <<source, eligible, skip_hash_check, memo, locals, api_lock, result, warned,
      debug_log, calls, run, history>>

\* The commands of Arguments::get_command_or_exit.
Commands == {"Spectrogram", "Transcode", "Verify"}

\* Results of SpectrogramGenerator::execute and SourceTranscoder::execute.
ServiceResults == {"Ok(true)", "Ok(false)", "Err"}

\* Host::execute returns r.
HostReturn(r, h) == [h EXCEPT !.pc = "returned", !.result = r]

\* h with the call of op recorded.
HostCall(h, op) == [h EXCEPT !.calls = Append(@, op)]

\* host.rs lines 34-39: the shared options are validated; invalid ends with Ok(false).
HostValidateShared ==
    /\ host.pc = "host_start"
    /\ \E valid \in BOOLEAN :
        LET h == HostCall(host, "SharedOptions::validate")
        IN host' = IF valid
                   THEN [h EXCEPT !.pc = "validated", !.shared_options = "valid"]
                   ELSE HostReturn("Ok(false)", [h EXCEPT !.shared_options = "invalid"])
    /\ UNCHANGED <<engine, pc>>

\* host.rs lines 40-46: get_by_string is called on the source provider and
\* awaited; execute is suspended until the provider answers.
HostGetSource ==
    /\ host.pc = "validated"
    /\ host' = [HostCall(host, "SourceProvider::get_by_string")
                    EXCEPT !.pc = "resolving", !.source_provider = "asked"]
    /\ UNCHANGED <<engine, pc>>

\* host.rs line 46: the provider answered; its error ends execute.
HostSourceResolved ==
    /\ host.pc = "resolving"
    /\ \E found \in BOOLEAN :
        host' = IF found
                THEN [host EXCEPT !.pc = "resolved", !.source_provider = "Ok"]
                ELSE HostReturn("Err", [host EXCEPT !.source_provider = "Err"])
    /\ UNCHANGED <<engine, pc>>

\* host.rs lines 47-51: the match on the command; get_command_or_exit may
\* end the process instead of answering.
HostDispatch ==
    /\ host.pc = "resolved"
    /\ \E command \in Commands \cup {"exit"} :
        host' = IF command = "exit"
                THEN [HostCall(host, "Arguments::get_command_or_exit") EXCEPT !.pc = "exited"]
                ELSE [HostCall(host, "Arguments::get_command_or_exit")
                        EXCEPT !.pc = command, !.command = command]
    /\ UNCHANGED <<engine, pc>>

\* host.rs lines 54-60: execute_spectrogram validates the SpectrogramOptions;
\* invalid ends with Ok(false), valid calls the generator and awaits it.
HostExecuteSpectrogram ==
    /\ host.pc = "Spectrogram"
    /\ \E valid \in BOOLEAN :
        LET h == HostCall(host, "SpectrogramOptions::validate")
        IN host' = IF valid
                   THEN [HostCall([h EXCEPT !.options = "valid"],
                                  "SpectrogramGenerator::execute")
                            EXCEPT !.pc = "spectrogram_running"]
                   ELSE HostReturn("Ok(false)", [h EXCEPT !.options = "invalid"])
    /\ UNCHANGED <<engine, pc>>

\* host.rs lines 60-61: the generator answered; its result is execute's.
HostSpectrogramReturned ==
    /\ host.pc = "spectrogram_running"
    /\ \E r \in ServiceResults : host' = HostReturn(r, host)
    /\ UNCHANGED <<engine, pc>>

\* host.rs lines 63-69: execute_transcode validates the TranscodeOptions;
\* invalid ends with Ok(false), valid calls the transcoder and awaits it.
HostExecuteTranscode ==
    /\ host.pc = "Transcode"
    /\ \E valid \in BOOLEAN :
        LET h == HostCall(host, "TranscodeOptions::validate")
        IN host' = IF valid
                   THEN [HostCall([h EXCEPT !.options = "valid"],
                                  "SourceTranscoder::execute")
                            EXCEPT !.pc = "transcode_running"]
                   ELSE HostReturn("Ok(false)", [h EXCEPT !.options = "invalid"])
    /\ UNCHANGED <<engine, pc>>

\* host.rs lines 69-70: the transcoder answered; its result is execute's.
HostTranscodeReturned ==
    /\ host.pc = "transcode_running"
    /\ \E r \in ServiceResults : host' = HostReturn(r, host)
    /\ UNCHANGED <<engine, pc>>

\* execute_verify calling the verifier whatever validate() answered.
HostExecuteVerify_unvalidated ==
    /\ host.pc = "Verify"
    /\ pc = "idle"
    /\ \E valid \in BOOLEAN :
        LET h == HostCall(host, "TranscodeOptions::validate")
        IN host' = [HostCall([h EXCEPT !.options = IF valid THEN "valid" ELSE "invalid"],
                             "SourceVerifier::execute")
                        EXCEPT !.pc = "verifying", !.verifier_lock = "write"]
    /\ pc' = "start"
    /\ UNCHANGED engine

\* host.rs lines 72-81: execute_verify validates the TranscodeOptions, takes the
\* write guard on the verifier and calls it.
HostExecuteVerify ==
    /\ host.pc = "Verify"
    /\ pc = "idle"
    /\ \E valid \in BOOLEAN :
        LET h == HostCall(host, "TranscodeOptions::validate")
        IN IF valid
           THEN /\ host' = [HostCall([h EXCEPT !.options = "valid"], "SourceVerifier::execute")
                                EXCEPT !.pc = "verifying", !.verifier_lock = "write"]
                /\ pc' = "start"
           ELSE /\ host' = HostReturn("Ok(false)", [h EXCEPT !.options = "invalid"])
                /\ pc' = pc
    /\ UNCHANGED engine

\* host.rs lines 81-82: the verifier returned; the guard is dropped with it.
HostVerified ==
    /\ host.pc = "verifying"
    /\ pc \in {"verdict", "error"}
    /\ host' = HostReturn(result, [host EXCEPT !.verifier_lock = "free"])
    /\ UNCHANGED <<engine, pc>>

\* Host::execute is entered; the verifier waits to be called.
InitHost ==
    /\ source \in Sources
    /\ source.lossy_master_approved = source.lossy_web_approved
    /\ eligible \in {{}, Formats}
    /\ skip_hash_check \in BOOLEAN
    /\ host = [NoHost EXCEPT !.pc = "host_start"]
    /\ flacs_ans = <<>> /\ path_ans = <<>> /\ tag_ans = <<>>
    /\ stream_ans = <<>> /\ fetch_ans = <<>> /\ imdl_ans = <<>>
    /\ pc = "idle"
    /\ api_errors = <<>> /\ flac_errors = <<>> /\ hash_check = <<>>
    /\ flacs = 0 /\ idx = 0 /\ errors = <<>>
    /\ api_lock = "free"
    /\ result = "none"
    /\ warned = <<>> /\ debug_log = <<>> /\ calls = <<>>
    /\ run = 1
    /\ history = <<>>

NextHost ==
    \/ HostValidateShared
    \/ HostGetSource
    \/ HostSourceResolved
    \/ HostDispatch
    \/ HostExecuteSpectrogram
    \/ HostSpectrogramReturned
    \/ HostExecuteTranscode
    \/ HostTranscodeReturned
    \/ HostExecuteVerify
    \/ HostVerified
    \/ Next

\* One run of Host::execute, the verifier's run inside it.
SpecHost == InitHost /\ [][NextHost]_vars

\* One run in which every step that can be taken is taken in the end: each
\* collaborator call returns and the collector's file list is finite.
SpecFair == InitRun /\ [][Next]_vars /\ WF_vars(Next)

NextPolicy == ApiChecks

\* The policy phase on every source and every set of eligible formats.
SpecPolicy == Init /\ [][NextPolicy]_vars

\* ----------------------------------------------------------- observations
\* The number of calls of op on arg in the current run.
Count(op, arg) == Cardinality({i \in 1..Len(calls) : calls[i] = Call(op, arg)})

\* op was called in the current run, on any argument.
Called(op) == \E i \in 1..Len(calls) : calls[i].op = op

\* The positions of the calls of op.
Positions(op) == {i \in 1..Len(calls) : calls[i].op = op}

\* The collaborators the file-content phase uses per file, and the shorteners.
PerFileOps ==
    {"get_max_transcode_sub_path", "TagVerifier::execute", "StreamVerifier::execute",
     "Shortener::suggest_track_name", "Shortener::suggest_album_name"}

\* The policy phase has returned.
PolicyDone == pc # "start"

\* The file-content phase has returned Ok.
FileDone == pc \in {"file_checked", "hash_locked", "hash_fetched", "hash_checked", "verdict"}
            \/ (pc = "error" /\ Called("get_torrent_file_as_buffer"))

\* The rules held in rules, as a set.
Range(rules) == {rules[i] : i \in 1..Len(rules)}

\* ------------------------------------------------------------------ claims
\* C1: a run that ends without a hard error returns true exactly when the
\* policy, file-content and hash rule lists are all empty (the hash list being
\* empty when the check is skipped); one rule in any phase makes it false.
C1_VerdictIffAllEmpty ==
    /\ result \in {"Ok(true)", "Ok(false)"} <=> pc = "verdict"
    /\ pc = "verdict" =>
        /\ result = "Ok(true)" <=>
              Len(api_errors) + Len(flac_errors) + Len(hash_check) = 0
        /\ ~Called("get_torrent_file_as_buffer") => hash_check = <<>>

\* C1 witness: a verdict of false owed to a single hash rule.
C1_Witness ==
    /\ pc = "verdict" /\ result = "Ok(false)"
    /\ api_errors = <<>> /\ flac_errors = <<>> /\ Len(hash_check) = 1

\* C2: no early exit on soft findings: with policy rules found the file-content
\* phase still runs, with policy or file-content rules found (the two
\* short-circuit rules included) the hash phase still runs unless skipped, and
\* the rules of every phase that ran are kept until the verdict and surfaced.
C2_NoEarlyExit ==
    /\ pc = "policy_checked" => ENABLED (FlacDirectoryNotFound \/ FlacCollect)
    /\ (pc = "file_checked" /\ ~skip_hash_check) => ENABLED HashLock
    /\ pc = "verdict" =>
        /\ Len(debug_log) >= 2
        /\ debug_log[1] = [title |-> "API checks", passed |-> api_errors = <<>>,
                           rules |-> api_errors]
        /\ debug_log[2] = [title |-> "FLAC file checks", passed |-> flac_errors = <<>>,
                           rules |-> flac_errors]
        /\ source.directory = "dir" => Called("Collector::get_flacs")
        /\ ~skip_hash_check =>
            /\ Called("get_torrent_file_as_buffer")
            /\ Called("ImdlCommand::verify_from_buffer")
            /\ Len(debug_log) = 3
            /\ debug_log[3].title = "Hash check" /\ debug_log[3].rules = hash_check
        /\ result = "Ok(false)" =>
            /\ Range(warned) = Range(api_errors) \cup Range(flac_errors) \cup Range(hash_check)
            /\ Len(warned) = Len(api_errors) + Len(flac_errors) + Len(hash_check)

\* C2 witness: policy rules and a short-circuited file phase, and the hash
\* phase ran all the same and added its rule.
C2_Witness ==
    /\ pc = "verdict"
    /\ api_errors # <<>>
    /\ flac_errors = <<NoFlacFiles(DirectoryString)>>
    /\ ~skip_hash_check
    /\ Called("ImdlCommand::verify_from_buffer")
    /\ hash_check # <<>>
    /\ Len(warned) = Len(api_errors) + 2

\* C3 as stated: with no eligible target format the policy phase contains
\* NoTranscodeFormats and the path-length evaluation is never attempted.
C3_Original ==
    eligible = {} =>
        /\ PolicyDone => NoTranscodeFormats \in Range(api_errors)
        /\ ~Called("get_max_transcode_sub_path")

\* C3 as amended: with no eligible target format the policy phase contains
\* NoTranscodeFormats, and the path-length evaluation is attempted all the
\* same, once for each file of a file-content phase that completes.
C3_NoTargetsStillEvaluatesPaths ==
    eligible = {} =>
        /\ PolicyDone => NoTranscodeFormats \in Range(api_errors)
        /\ FileDone =>
            \A f \in 1..flacs : Count("get_max_transcode_sub_path", f) = 1

\* C3 witness: no target format, two files, both evaluated.
C3_Witness ==
    /\ eligible = {}
    /\ pc = "verdict"
    /\ flacs = 2
    /\ Count("get_max_transcode_sub_path", 1) = 1
    /\ Count("get_max_transcode_sub_path", 2) = 1
    /\ NoTranscodeFormats \in Range(api_errors)

\* C4: with skip_hash_check set the hash phase contributes no rule and neither
\* the torrent fetch nor the torrent verifier is ever invoked, whatever the
\* source and the earlier phases.
C4_SkipHashCheckCallsNothing ==
    skip_hash_check =>
        /\ hash_check = <<>>
        /\ ~Called("get_torrent_file_as_buffer")
        /\ ~Called("ImdlCommand::verify_from_buffer")
        /\ api_lock = "free"
        /\ fetch_ans = <<>> /\ imdl_ans = <<>>
        /\ \A i \in 1..Len(debug_log) : debug_log[i].title # "Hash check"

\* C4 witness: a skipped hash check after both earlier phases found rules.
C4_Witness ==
    /\ skip_hash_check
    /\ pc = "verdict"
    /\ api_errors # <<>> /\ flac_errors # <<>>
    /\ flacs = 2

\* C5: with the source directory absent or not a directory the file-content
\* phase returns the single rule SourceDirectoryNotFound(path) and invokes
\* neither the collector nor the path evaluator, the tag verifier, the stream
\* verifier or a shortener; a second call on the same source gives the same.
C5_MissingDirectoryOneRule ==
    (source.directory # "dir" /\ pc \notin {"start", "policy_checked"}) =>
        /\ flac_errors = <<SourceDirectoryNotFound(DirectoryString)>>
        /\ pc # "error" \/ Called("get_torrent_file_as_buffer")
        /\ ~Called("Collector::get_flacs")
        /\ \A op \in PerFileOps : ~Called(op)
        /\ flacs_ans = <<>> /\ path_ans = <<>> /\ tag_ans = <<>> /\ stream_ans = <<>>
        /\ run = 2 => flac_errors = history[1].flac_errors

\* C5 witness: the second file-content phase on a path that is a plain file.
C5_Witness ==
    /\ source.directory = "file"
    /\ run = 2
    /\ pc = "file_checked"
    /\ Len(history[1].flac_errors) = 1

\* The call at position i of the current run was answered with a hard error.
Failed(i) ==
    \/ /\ calls[i].op = "TagVerifier::execute"
       /\ ~tag_ans[calls[i].arg].ok
    \/ /\ calls[i].op = "StreamVerifier::execute"
       /\ ~stream_ans[calls[i].arg].ok
    \/ /\ calls[i].op = "get_torrent_file_as_buffer"
       /\ fetch_ans[source.id] = "Err"
    \/ /\ calls[i].op = "ImdlCommand::verify_from_buffer"
       /\ ~imdl_ans[0].ok

\* C6: a hard error of the tag verifier, the stream verifier, the torrent fetch
\* or the torrent verifier ends execute at once with that error: no verdict,
\* no collaborator invoked after the failing call (no tracker call after a
\* file-phase error), and nothing reported as a verdict.
C6_HardErrorPropagates ==
    /\ \A i \in 1..Len(calls) :
        Failed(i) =>
            /\ i = Len(calls)
            /\ pc = "error"
    /\ pc = "error" =>
        /\ calls # <<>> /\ Failed(Len(calls))
        /\ result = "Err"
        /\ warned = <<>>
        /\ ~ENABLED Next
        /\ calls[Len(calls)].op \in {"TagVerifier::execute", "StreamVerifier::execute"} =>
            /\ ~Called("get_torrent_file_as_buffer")
            /\ ~Called("ImdlCommand::verify_from_buffer")
            /\ ~Called("Shortener::suggest_album_name")
            /\ flac_errors = <<>>
    /\ result = "Err" => pc = "error"

\* C6 witness: the stream verifier fails on the second file, after rules were
\* collected by the policy phase and on the first file.
C6_Witness ==
    /\ pc = "error"
    /\ calls[Len(calls)] = Call("StreamVerifier::execute", 2)
    /\ api_errors # <<>>
    /\ errors # <<>>

\* C7: a rejected verdict surfaces the policy rules, then the file-content
\* rules, then the hash rules, each once and in its order of detection (so
\* SceneNotSupported comes before any file-level rule); a verified verdict
\* surfaces no rule.
C7_RulesInPhaseOrder ==
    pc = "verdict" =>
        /\ result = "Ok(false)" => warned = api_errors \o flac_errors \o hash_check
        /\ result = "Ok(true)" => warned = <<>>
        /\ (source.scene /\ result = "Ok(false)") => warned[1] = SceneNotSupported
        /\ \A i \in 1..Len(warned) :
            /\ warned[i].kind \in {"SourceDirectoryNotFound", "NoFlacFiles", "PathTooLong",
                                   "NoArtistTag", "NoTitleTag", "SampleRate"} =>
                    i > Len(api_errors) /\ i <= Len(api_errors) + Len(flac_errors)
            /\ warned[i].kind = "IncorrectHash" => i = Len(warned) /\ i > Len(flac_errors)

\* C7 witness: a scene source rejected with rules of all three phases.
C7_Witness ==
    /\ pc = "verdict"
    /\ source.scene
    /\ Len(api_errors) >= 2 /\ Len(flac_errors) >= 2 /\ Len(hash_check) = 1
    /\ Len(warned) = Len(api_errors) + Len(flac_errors) + 1

\* The files of the current run whose maximum transcode path exceeds the limit.
TooLongFiles == {f \in 1..flacs : path_ans[f].len > MAX_PATH_LENGTH}

\* C8: in a file-content phase that completes, the track shortener is invoked
\* once for each file whose maximum transcode path exceeds the limit and for no
\* other, each such file contributes one PathTooLong rule, and the album
\* shortener is invoked once if a PathTooLong rule was produced and not at all
\* otherwise, after every file has been processed.
C8_ShortenerInvocations ==
    (FileDone /\ flacs > 0) =>
        /\ \A f \in 1..flacs :
            /\ Count("Shortener::suggest_track_name", f) = IF f \in TooLongFiles THEN 1 ELSE 0
            /\ Cardinality({i \in 1..Len(flac_errors) :
                    flac_errors[i].kind = "PathTooLong" /\ flac_errors[i].arg.text = f})
                = IF f \in TooLongFiles THEN 1 ELSE 0
        /\ Count("Shortener::suggest_track_name", 0) = 0
        /\ Count("Shortener::suggest_album_name", 0) = IF TooLongFiles # {} THEN 1 ELSE 0
        /\ \A i \in Positions("Shortener::suggest_album_name") :
            \A j \in 1..Len(calls) :
                calls[j].op \in PerFileOps \ {"Shortener::suggest_album_name"} => j < i

\* C8 witness: the first of two files is too long, the second is not and ends
\* the list with a stream rule.
C8_Witness ==
    /\ pc = "file_checked"
    /\ flacs = 2
    /\ TooLongFiles = {1}
    /\ flac_errors[Len(flac_errors)].kind = "SampleRate"
    /\ Count("Shortener::suggest_album_name", 0) = 1

\* C9: a source that is no scene release, whose approval flags are not true
\* (absent or false) and that has an eligible target format passes the policy
\* phase with no rule.
C9_CleanSourceNoPolicyRule ==
    (/\ PolicyDone
     /\ ~source.scene
     /\ source.lossy_master_approved \in {"None", "Some(false)"}
     /\ source.lossy_web_approved \in {"None", "Some(false)"}
     /\ eligible # {}) => api_errors = <<>>

\* C9 witness: both flags present and false, one target format.
C9_Witness ==
    /\ PolicyDone
    /\ ~source.scene
    /\ source.lossy_master_approved = "Some(false)"
    /\ source.lossy_web_approved = "Some(false)"
    /\ Cardinality(eligible) = 1
    /\ api_errors = <<>>

\* C10: with the scene flag set the policy rules contain SceneNotSupported,
\* whatever the approval flags and the eligible target formats.
C10_SceneAlwaysReported ==
    (PolicyDone /\ source.scene) => SceneNotSupported \in Range(api_errors)

\* C10 witness: a scene source with every other policy rule raised too.
C10_Witness ==
    /\ PolicyDone
    /\ source.scene
    /\ source.lossy_master_approved = "Some(true)"
    /\ source.lossy_web_approved = "Some(true)"
    /\ eligible = {}
    /\ Len(api_errors) = 4

\* C11: a second run on the unchanged source, with the same collaborator
\* answers and options, ends with the same verdict (or the same hard error)
\* and the same ordered rules as the first; nothing of the first run is left
\* to change it.
C11_SecondRunSameOutcome ==
    (run = 2 /\ pc \in {"verdict", "error"}) =>
        /\ result = history[1].result
        /\ warned = history[1].warned
        /\ api_errors = history[1].api_errors
        /\ flac_errors = history[1].flac_errors
        /\ hash_check = history[1].hash_check
        /\ calls = history[1].calls
        /\ pc = history[1].pc

\* C11 witness: two runs rejected alike, with rules of the three phases.
C11_Witness ==
    /\ run = 2 /\ pc = "verdict"
    /\ history[1].result = "Ok(false)"
    /\ api_errors # <<>> /\ Len(flac_errors) >= 3 /\ hash_check # <<>>
    /\ Len(warned) = Len(api_errors) + Len(flac_errors) + Len(hash_check)

\* The engine's state: 0 Start, 1 PolicyChecked (the file-content phase may be
\* under way), 2 FileChecked (the hash phase may be under way), 3 HashChecked,
\* 4 Verdict; 5 when a hard error ended the run.
EngineState ==
    CASE pc = "start" -> 0
      [] pc \in {"policy_checked", "flac_path", "flac_tag", "flac_stream", "flac_album"} -> 1
      [] pc \in {"file_checked", "hash_locked", "hash_fetched"} -> 2
      [] pc = "hash_checked" -> 3
      [] pc = "verdict" -> 4
      [] OTHER -> 5

\* The phase a collaborator call belongs to: 1 policy, 2 file-content, 3 hash.
PhaseOf(op) ==
    CASE op = "targets.get" -> 1
      [] op \in {"get_torrent_file_as_buffer", "ImdlCommand::verify_from_buffer"} -> 3
      [] OTHER -> 2

\* C12: the engine goes through Start, PolicyChecked, FileChecked, HashChecked
\* and Verdict in that order: the file-content phase starts after the policy
\* phase returned, the hash phase after the file-content phase returned, the
\* verdict after the hash phase completed or was skipped; no phase overlaps
\* another or runs twice in a run.
C12_PhasesInOrder ==
    /\ EngineState = 0 => calls = <<>> /\ debug_log = <<>>
    /\ EngineState = 1 =>
        /\ Len(debug_log) = 1
        /\ \A i \in 1..Len(calls) : PhaseOf(calls[i].op) <= 2
    /\ EngineState \in 1..4 => debug_log[1].title = "API checks"
    /\ EngineState \in 2..4 =>
        /\ Len(debug_log) >= 2
        /\ debug_log[2].title = "FLAC file checks"
    /\ EngineState = 2 => Len(debug_log) = 2
    /\ EngineState \in 3..4 =>
        /\ Len(debug_log) = IF skip_hash_check THEN 2 ELSE 3
        /\ ~skip_hash_check =>
            /\ debug_log[3].title = "Hash check"
            /\ Called("ImdlCommand::verify_from_buffer")
        /\ api_lock = "free"
    /\ api_lock = "write" <=> pc \in {"hash_locked", "hash_fetched"}
    /\ \A i \in 1..Len(calls) - 1 : PhaseOf(calls[i].op) <= PhaseOf(calls[i + 1].op)
    /\ \A op \in {"targets.get", "Collector::get_flacs", "get_torrent_file_as_buffer",
                  "ImdlCommand::verify_from_buffer"} : Cardinality(Positions(op)) <= 1
    /\ Called("Collector::get_flacs") => calls[2].op = "Collector::get_flacs"
    /\ calls # <<>> => calls[1].op = "targets.get"
    /\ result \in {"Ok(true)", "Ok(false)"} <=> EngineState = 4

\* C12 witness: a verdict reached through all three phases with two files.
C12_Witness ==
    /\ pc = "verdict"
    /\ ~skip_hash_check
    /\ flacs = 2
    /\ Len(debug_log) = 3
    /\ Called("targets.get") /\ Called("StreamVerifier::execute")
    /\ Called("ImdlCommand::verify_from_buffer")

\* The four policy rules in their fixed order.
PolicyOrder ==
    <<SceneNotSupported, LossyMasterNeedsApproval, LossyWebNeedsApproval, NoTranscodeFormats>>

\* The predicate of a policy rule holds of the source.
PolicyHolds(rule) ==
    \/ rule = SceneNotSupported /\ source.scene
    \/ rule = LossyMasterNeedsApproval /\ source.lossy_master_approved = "Some(true)"
    \/ rule = LossyWebNeedsApproval /\ source.lossy_web_approved = "Some(true)"
    \/ rule = NoTranscodeFormats /\ eligible = {}

\* C13: the policy rules are the subsequence of SceneNotSupported,
\* LossyMasterNeedsApproval, LossyWebNeedsApproval, NoTranscodeFormats whose
\* predicate holds (scene flag; lossy-master flag Some(true); lossy-web flag
\* Some(true); no eligible target), in that order, each at most once.
C13_PolicySubsequence ==
    PolicyDone => api_errors = SelectSeq(PolicyOrder, PolicyHolds)

\* C13 witness: both approval flags true and nothing else, two rules in order.
C13_Witness ==
    /\ PolicyDone
    /\ ~source.scene /\ eligible # {}
    /\ source.lossy_master_approved = "Some(true)"
    /\ source.lossy_web_approved = "Some(true)"
    /\ api_errors = <<LossyMasterNeedsApproval, LossyWebNeedsApproval>>

\* C14: with the directory present and no audio file collected the
\* file-content phase returns the single rule NoFlacFiles(path) and invokes
\* neither the path evaluator nor the tag verifier, the stream verifier or a
\* shortener.
C14_NoFlacFilesOneRule ==
    (source.directory = "dir" /\ 0 \in DOMAIN flacs_ans /\ flacs_ans[0] = 0
       /\ Called("Collector::get_flacs")) =>
        /\ pc \notin {"flac_path", "flac_tag", "flac_stream", "flac_album"}
        /\ flac_errors = <<NoFlacFiles(DirectoryString)>>
        /\ \A op \in PerFileOps : ~Called(op)
        /\ path_ans = <<>> /\ tag_ans = <<>> /\ stream_ans = <<>>
        /\ Count("Collector::get_flacs", 0) = 1

\* C14 witness: an empty directory, the run carried on to its verdict.
C14_Witness ==
    /\ source.directory = "dir"
    /\ Called("Collector::get_flacs") /\ flacs_ans[0] = 0
    /\ pc = "verdict"
    /\ flac_errors = <<NoFlacFiles(DirectoryString)>>

\* The rules file f contributes: its PathTooLong rule if its path is over the
\* limit, then its tag rules, then its stream rules.
FileRules(f) ==
    (IF path_ans[f].len > MAX_PATH_LENGTH THEN <<PathTooLong(path_ans[f])>> ELSE <<>>)
        \o tag_ans[f].rules \o stream_ans[f].rules

RECURSIVE RulesOfFiles(_)
\* The rules of files 1..n, in collector order.
RulesOfFiles(n) == IF n = 0 THEN <<>> ELSE RulesOfFiles(n - 1) \o FileRules(n)

\* C15: in a file-content phase that completes with at least one file, every
\* file gets the path evaluation, the tag verifier and the stream verifier,
\* whatever the others found, and the rule list is, file by file in collector
\* order, the PathTooLong rule, the tag rules and the stream rules, none
\* dropped, duplicated or reordered.
C15_EveryFileEveryCheck ==
    (FileDone /\ flacs > 0) =>
        /\ \A f \in 1..flacs :
            /\ Count("get_max_transcode_sub_path", f) = 1
            /\ Count("TagVerifier::execute", f) = 1
            /\ Count("StreamVerifier::execute", f) = 1
        /\ \A i \in 1..Len(calls) : calls[i].op \in PerFileOps => calls[i].arg <= flacs
        /\ flac_errors = RulesOfFiles(flacs)

\* C15 witness: two files, the first with a long path, tag rules and a stream
\* rule, the second with tag rules only.
C15_Witness ==
    /\ pc = "file_checked"
    /\ flacs = 2
    /\ Len(FileRules(1)) = 4
    /\ Len(FileRules(2)) = 2
    /\ Len(flac_errors) = 6

\* C16: a file yields PathTooLong exactly when its maximum transcode path is
\* longer than MAX_PATH_LENGTH: a path of the limit's length passes, one a
\* unit longer does not, and the rule carries that path.
C16_PathLimitStrict ==
    \A f \in 1..flacs :
        Count("get_max_transcode_sub_path", f) = 1 =>
            LET found == {i \in 1..Len(errors) :
                            errors[i].kind = "PathTooLong" /\ errors[i].arg.text = f}
            IN /\ path_ans[f].len <= MAX_PATH_LENGTH => found = {}
               /\ path_ans[f].len >= MAX_PATH_LENGTH + 1 =>
                    /\ Cardinality(found) = 1
                    /\ \A i \in found : errors[i].arg = path_ans[f]

\* C16 witness: one path at the limit, accepted, and one a unit over, rejected.
C16_Witness ==
    /\ pc = "file_checked"
    /\ flacs = 2
    /\ path_ans[1].len = MAX_PATH_LENGTH
    /\ path_ans[2].len = MAX_PATH_LENGTH + 1
    /\ tag_ans[1].rules = <<>> /\ stream_ans[1].rules = <<>>
    /\ flac_errors[1] = PathTooLong(path_ans[2])

\* The run has ended, with a verdict or with a hard error.
Ended ==
    \/ pc = "verdict" /\ result \in {"Ok(true)", "Ok(false)"}
    \/ pc = "error" /\ result = "Err"

\* C17: every run that is started ends, with a verdict or with a hard error
\* and nothing else, provided every collaborator call returns and the
\* collector's file list is finite; no state of a run is stuck.
C17_RunEnds ==
    /\ [](~Ended => (result = "none" /\ ENABLED Next))
    /\ [](Ended => ~ENABLED Next)
    /\ <>[]Ended

\* C17 witness: a run ended by a verdict after three phases on two files.
C17_Witness ==
    /\ Ended
    /\ pc = "verdict"
    /\ flacs = 2
    /\ Len(calls) >= 10

\* C18: the hash phase takes the write lock on the shared api before the
\* fetch and holds it through the fetch and the torrent verification, so no
\* other holder has the api meanwhile; the lock is released when the hash
\* phase ends, by a result or by a hard error of the fetch or of the
\* verification, so that a later run can take it.
C18_ApiWriteLock ==
    /\ api_lock = "write" <=> pc \in {"hash_locked", "hash_fetched"}
    /\ pc \in {"hash_locked", "hash_fetched"} => ~ENABLED OtherAcquire
    /\ pc = "hash_locked" => ~Called("get_torrent_file_as_buffer")
    /\ pc = "hash_fetched" =>
        /\ Called("get_torrent_file_as_buffer")
        /\ ~Called("ImdlCommand::verify_from_buffer")
    /\ api_lock # "write" =>
        (Called("get_torrent_file_as_buffer") =>
            (pc \in {"hash_checked", "verdict", "error"}))
    /\ pc \in {"hash_checked", "verdict", "error"} => api_lock # "write"
    /\ (pc = "file_checked" /\ ~skip_hash_check /\ api_lock # "other") => ENABLED HashLock
    /\ (pc = "file_checked" /\ api_lock = "other") => ~ENABLED HashLock

\* C18 witness: the second run holds the lock after the first run's
\* verification failed with a hard error.
C18_Witness ==
    /\ run = 2
    /\ history[1].pc = "error"
    /\ history[1].calls[Len(history[1].calls)].op = "ImdlCommand::verify_from_buffer"
    /\ pc = "hash_locked"
    /\ api_lock = "write"

\* The Host called op.
HostCalled(op) == \E i \in 1..Len(host.calls) : host.calls[i] = op

\* The commands' services.
ServiceOps ==
    {"SpectrogramGenerator::execute", "SourceTranscoder::execute", "SourceVerifier::execute"}

\* C19: Host::execute runs the verifier only after the shared options and then
\* the TranscodeOptions passed validation and the source was resolved; a failed
\* validation returns Ok(false) with the verifier not invoked (and, for the
\* shared options, the source not resolved); at most one of the three commands
\* is dispatched in a run, and the verifier is held under its write lock for
\* the whole verification.
C19_HostRunsVerifierAfterValidation ==
    /\ (pc # "idle" \/ HostCalled("SourceVerifier::execute")) =>
        /\ host.shared_options = "valid"
        /\ host.source_provider = "Ok"
        /\ host.command = "Verify"
        /\ host.options = "valid"
        /\ host.calls = <<"SharedOptions::validate", "SourceProvider::get_by_string",
                          "Arguments::get_command_or_exit",
                          "TranscodeOptions::validate", "SourceVerifier::execute">>
    /\ host.shared_options = "invalid" =>
        /\ host.pc = "returned" /\ host.result = "Ok(false)"
        /\ host.calls = <<"SharedOptions::validate">>
        /\ host.source_provider = "unasked"
        /\ pc = "idle"
    /\ host.options = "invalid" =>
        /\ host.pc = "returned" /\ host.result = "Ok(false)"
        /\ \A op \in ServiceOps : ~HostCalled(op)
        /\ pc = "idle"
    /\ host.pc = "exited" => host.result = "none" /\ pc = "idle"
    /\ Cardinality({i \in 1..Len(host.calls) : host.calls[i] \in ServiceOps}) <= 1
    /\ HostCalled("SpectrogramGenerator::execute") => host.command = "Spectrogram"
    /\ HostCalled("SourceTranscoder::execute") => host.command = "Transcode"
    /\ host.pc \in {"resolving", "spectrogram_running", "transcode_running", "verifying"} =>
        /\ host.result = "none"
        /\ host.calls[Len(host.calls)] \in ServiceOps \cup {"SourceProvider::get_by_string"}
    /\ host.pc \in {"resolving", "spectrogram_running", "transcode_running"} => pc = "idle"
    /\ host.verifier_lock = "write" <=> host.pc = "verifying"
    /\ (pc # "idle" /\ ~Ended) => host.verifier_lock = "write"
    /\ (host.pc = "returned" /\ pc # "idle") =>
        /\ Ended
        /\ host.result = result
        /\ host.verifier_lock = "free"

\* C19 witness: the verify command, validated and run to a verdict of true,
\* which the Host returned.
C19_Witness ==
    /\ host.pc = "returned"
    /\ host.command = "Verify"
    /\ host.result = "Ok(true)"
    /\ pc = "verdict"
    /\ flacs = 2

====
